---- MODULE Spec2Model ----
(***************************************************************************)
(* A model of the product-metrics engine: the analyzers of                 *)
(* analyze_metrics.py, the funnel table of generate_funnel.py, the         *)
(* feedback classifier and feedback trend of generate_dashboard.py, and    *)
(* the runs of the four scripts over the files of mock_data/ and report/.  *)
(*                                                                         *)
(* Tables.  Users is a function user_id -> signup day (user_id is the key  *)
(* of the table).  Sessions is a sequence of rows; the session_id of a row *)
(* is its index, so session_ids are unique.  A session row holds user_id   *)
(* (NaN when the field is missing) and the calendar day of start_time.     *)
(* FeatureUsageEvents is a set of rows (session_id, feature_name,          *)
(* usage_timestamp); a session_id larger than the number of sessions is a  *)
(* reference to a session that does not exist.  FeedbackEntries is a       *)
(* sequence of rows (session_id, rating, comments), feedback_id being the  *)
(* index.  The files of mock_data/ and report/ are a function from the     *)
(* names of the files that exist to what they hold.                        *)
(*                                                                         *)
(* Numbers.  Days are integers, day 0 being a Monday.  A float that is the *)
(* quotient of two integers is kept as the pair <<numerator, denominator>> *)
(* and compared by cross-multiplication; NaN and +/-infinity, the values   *)
(* pandas gives to x/0, are the pairs <<0,0>> and <<+/-1,0>>.  phi is kept *)
(* as its numerator and the square of its denominator.                     *)
(***************************************************************************)
EXTENDS Integers, Sequences, FiniteSets, TLC

VARIABLES users, sessions, feature_usage, feedback, steps, feedback_row,
          activity, adoption, retention, correlation, funnel, sentiment,
          feedback_trend, files, script, last

vars == <<users, sessions, feature_usage, feedback, steps, feedback_row,
          activity, adoption, retention, correlation, funnel, sentiment,
          feedback_trend, files, script, last>>

tables == <<users, sessions, feature_usage, feedback, steps, feedback_row>>

\* The files on disk and the script run in progress.
scripts == <<files, script, last>>

(***************************************************************************)
(* Bounds of the model.                                                    *)
(***************************************************************************)
NumUserIds == 4
MaxSessions == 5
NumActivityUsers == 2
MaxActivitySessions == 3
MaxDay == 8
NumRateUsers == 2
MaxRateSessions == 2
MaxRateEvents == 2
NumRetentionUsers == 2
MaxRetentionSessions == 3
MaxStages == 3
MaxStageUsers == 3
MaxFragments == 3
MaxGapSessions == 2
MaxGapFeedback == 2
MaxDailySessions == 4
MaxRankSessions == 3
MaxEngineSessions == 2

\* The missing value of a user_id column (a left merge with no match).
NaN == 0

UserIds == 1..NumUserIds

\* The feature of FEATURES the correlation tables are drawn over.
CorrFeatures == {"Dashboard"}

\* Feature names in the order groupby("feature_name") yields its groups.
FeatureOrder == <<"Automation", "Collaboration", "Dashboard", "Insights">>

Pending == [status |-> "pending"]

(***************************************************************************)
(* Arithmetic helpers.                                                     *)
(***************************************************************************)
Abs(x) == IF x < 0 THEN -x ELSE x

RECURSIVE SetSum(_, _)
SetSum(S, f) ==
    IF S = {} THEN 0
    ELSE LET x == CHOOSE y \in S : TRUE IN f[x] + SetSum(S \ {x}, f)

\* Python's a / b on numbers: ZeroDivisionError is the caller's concern.
Ratio(a, b) == <<a, b>>
Zero == <<0, 1>>
One == <<1, 1>>

RatEq(p, q) == p[2] # 0 /\ q[2] # 0 /\ p[1] * q[2] = q[1] * p[2]
RatSub(p, q) == <<p[1] * q[2] - q[1] * p[2], p[2] * q[2]>>
RatMul(p, q) == <<p[1] * q[1], p[2] * q[2]>>
RatIsZero(p) == p[2] # 0 /\ p[1] = 0
\* A finite value, neither NaN nor an infinity.
RatFinite(p) == p[2] # 0
\* -1 <= p <= 1
RatInUnit(p) == p[2] # 0 /\ Abs(p[1]) <= Abs(p[2])

(***************************************************************************)
(* The session_id -> user_id join used by the adoption and correlation     *)
(* analyzers: merge(..., on="session_id", how="left").                     *)
(***************************************************************************)
SessionUser(sess, sid) ==
    IF sid \in 1..Len(sess) THEN sess[sid].user_id ELSE NaN

\* sessions.groupby("user_id")["session_id"].count(): NaN keys are dropped.
SessionCounts(sess) ==
    LET keys == {sess[i].user_id : i \in 1..Len(sess)} \ {NaN}
    IN [u \in keys |-> Cardinality({i \in 1..Len(sess) : sess[i].user_id = u})]

\* (session_counts >= 2).astype(int).reindex(users["user_id"], fill_value=0)
RepeatThreshold == 2

RepeatSeries(usrs, sess) ==
    LET counts == SessionCounts(sess)
    IN [u \in DOMAIN usrs |->
          IF u \in DOMAIN counts
          THEN (IF counts[u] >= RepeatThreshold THEN 1 ELSE 0)
          ELSE 0]

\* repeat_series.get(user, 0)
SeriesGet(series, key, default) ==
    IF key \in DOMAIN series THEN series[key] ELSE default

\* merge + dropna(subset=["user_id"]) + drop_duplicates(["user_id","feature_name"])
FeatureUsers(sess, usage) ==
    {<<SessionUser(sess, e.session_id), e.feature_name>> :
        e \in {x \in usage : SessionUser(sess, x.session_id) # NaN}}

(***************************************************************************)
(* phi_coefficient.  math.sqrt raises ValueError on a negative argument;   *)
(* the denominator is 0 exactly when the product under the root is 0.      *)
(***************************************************************************)
phi_coefficient(tp, fn, fp, tn) ==
    LET den2 == (tp + fp) * (tp + fn) * (tn + fp) * (tn + fn)
    IN IF den2 < 0 THEN [raised |-> "ValueError", num |-> 0, den2 |-> den2]
       ELSE IF den2 = 0 THEN [raised |-> "none", num |-> 0, den2 |-> 1]
       ELSE [raised |-> "none", num |-> tp * tn - fp * fn, den2 |-> den2]

\* -1 <= phi <= 1 for a phi that was computed.
PhiInUnit(phi) == phi.raised = "none" /\ phi.num * phi.num <= phi.den2
PhiIsZero(phi) == phi.raised = "none" /\ phi.num = 0

\* a.phi > b.phi, comparing num / sqrt(den2) without taking the root.
PhiGreater(a, b) ==
    LET sa == a.num * a.num * b.den2
        sb == b.num * b.num * a.den2
    IN IF a.num >= 0 /\ b.num >= 0 THEN sa > sb
       ELSE IF a.num < 0 /\ b.num < 0 THEN sa < sb
       ELSE a.num >= 0 /\ b.num < 0

(***************************************************************************)
(* One row of the loop of compute_feature_repeat_correlation.  tp, fp, fn  *)
(* and tn are locals of the loop; the row keeps them beside the reported   *)
(* fields so that they can be stated.                                      *)
(***************************************************************************)
\* A slip in the fn cell: the repeat users who used the feature not taken out.
FnCount_Mutant(repeat_total, tp) == repeat_total

\* fn = repeat_total - tp
FnCount(repeat_total, tp) == repeat_total - tp

CorrelationRow(usrs, sess, usage, feature) ==
    LET repeat_series == RepeatSeries(usrs, sess)
        user_count == Cardinality(DOMAIN repeat_series)
        repeat_total == SetSum(DOMAIN repeat_series, repeat_series)
        users_used == {p[1] : p \in {q \in FeatureUsers(sess, usage) : q[2] = feature}}
        used_count == Cardinality(users_used)
        tp == SetSum(users_used, [u \in users_used |-> SeriesGet(repeat_series, u, 0)])
        fp == used_count - tp
        fn == FnCount(repeat_total, tp)
        tn == user_count - (tp + fp + fn)
        repeat_rate_used == IF used_count # 0 THEN Ratio(tp, used_count) ELSE Zero
        not_used_count == user_count - used_count
        repeat_rate_not_used ==
            IF not_used_count # 0 THEN Ratio(repeat_total - tp, not_used_count) ELSE Zero
    IN [feature_name |-> feature,
        users_used |-> used_count,
        used |-> users_used,
        tp |-> tp, fp |-> fp, fn |-> fn, tn |-> tn,
        repeat_rate_used |-> repeat_rate_used,
        repeat_rate_not_used |-> repeat_rate_not_used,
        repeat_rate_lift |-> RatSub(repeat_rate_used, repeat_rate_not_used),
        phi |-> phi_coefficient(tp, fn, fp, tn)]

\* The groups of feature_users.groupby("feature_name"), in key order; a
\* missing feature_name forms no group.
GroupedFeatures(sess, usage) ==
    LET present == {p[2] : p \in FeatureUsers(sess, usage)}
    IN SelectSeq(FeatureOrder, LAMBDA f : f \in present)

\* The rows left in the order of the groupby.
SortByPhi_Mutant(rows) == rows

\* stats.sort(key=phi, reverse=True): a stable insertion of each row after
\* the rows whose phi is not smaller.
RECURSIVE SortByPhi(_)
SortByPhi(rows) ==
    IF Len(rows) <= 1 THEN rows
    ELSE LET rest == SortByPhi(Tail(rows))
             x == Head(rows)
             k == Cardinality({i \in 1..Len(rest) : PhiGreater(rest[i].phi, x.phi)})
         IN SubSeq(rest, 1, k) \o <<x>> \o SubSeq(rest, k + 1, Len(rest))

compute_feature_repeat_correlation(usrs, sess, usage) ==
    LET groups == GroupedFeatures(sess, usage)
        stats == [i \in 1..Len(groups) |-> CorrelationRow(usrs, sess, usage, groups[i])]
        failed == {i \in 1..Len(stats) : stats[i].phi.raised # "none"}
    IN IF failed # {}
       THEN [status |-> "ValueError", stats |-> <<>>]
       ELSE [status |-> "ok", stats |-> SortByPhi(stats)]

(***************************************************************************)
(* compute_activity_metrics.                                               *)
(***************************************************************************)
DaysPerWeek == 7

\* 0 for a Monday ... 6 for a Sunday (day 0 is a Monday).
Weekday(d) == d % DaysPerWeek

\* dt.to_period("W-MON"): the weekly period that ENDS on the anchor day,
\* Monday, so it runs from a Tuesday to the following Monday.
WeekPeriod(d) ==
    LET end == d + ((DaysPerWeek - Weekday(d)) % DaysPerWeek)
    IN [start_time |-> end - (DaysPerWeek - 1), end_time |-> end]

\* A count of the rows of each group instead of its distinct user_ids.
NUniqueUsers_Mutant(sess, key) ==
    LET keys == {key[i] : i \in 1..Len(sess)}
    IN [k \in keys |-> Cardinality({j \in 1..Len(sess) : key[j] = k})]

\* groupby(key)["user_id"].nunique(): one entry per key that occurs, counting
\* the distinct user_ids that are not NaN.
NUniqueUsers(sess, key) ==
    LET keys == {key[i] : i \in 1..Len(sess)}
    IN [k \in keys |->
          Cardinality({sess[i].user_id : i \in {j \in 1..Len(sess) : key[j] = k}} \ {NaN})]

RECURSIVE SortedValues(_, _)
SortedValues(series, K) ==
    IF K = {} THEN <<>>
    ELSE LET k == CHOOSE x \in K : \A y \in K : series[x] <= series[y]
         IN <<series[k]>> \o SortedValues(series, K \ {k})

\* sort_index(): the keys of a series in ascending order.
RECURSIVE SortIndex(_)
SortIndex(K) ==
    IF K = {} THEN <<>>
    ELSE LET k == CHOOSE x \in K : \A y \in K : x <= y
         IN <<k>> \o SortIndex(K \ {k})

\* Series.mean(), .median(), .max() and .min() of a series that is not
\* empty; each is NaN for an empty series.
SeriesMean(series) == Ratio(SetSum(DOMAIN series, series), Cardinality(DOMAIN series))

SeriesMedian(series) ==
    LET n == Cardinality(DOMAIN series)
        sorted == SortedValues(series, DOMAIN series)
    IN IF n % 2 = 1 THEN Ratio(sorted[(n + 1) \div 2], 1)
       ELSE Ratio(sorted[n \div 2] + sorted[n \div 2 + 1], 2)

SeriesMax(series) ==
    LET k == CHOOSE x \in DOMAIN series : \A y \in DOMAIN series : series[y] <= series[x]
    IN series[k]

SeriesMin(series) ==
    LET k == CHOOSE x \in DOMAIN series : \A y \in DOMAIN series : series[x] <= series[y]
    IN series[k]

\* The summary dictionary.  On an empty series max() is NaN and int(nan)
\* raises ValueError (float(nan), for the mean and the median, does not).
ActivitySummary(series) ==
    IF DOMAIN series = {}
    THEN [raised |-> "ValueError"]
    ELSE [raised |-> "none",
          observed |-> Cardinality(DOMAIN series),
          average |-> SeriesMean(series),
          median |-> SeriesMedian(series),
          max |-> SeriesMax(series),
          min |-> SeriesMin(series)]

\* The working frame of compute_activity_metrics: the session rows with the
\* date and week columns.
ActivityFrame(sess) ==
    [i \in 1..Len(sess) |->
        [user_id |-> sess[i].user_id, start_day |-> sess[i].start_day,
         date |-> sess[i].start_day, week |-> WeekPeriod(sess[i].start_day)]]

\* The columns added to the caller's frame, no copy being taken.
SessionsAfterActivity_Mutant(sess) == ActivityFrame(sess)

\* The caller's session table after the call: the columns are added to
\* sessions.copy(), so the caller's frame keeps its rows and columns.
SessionsAfterActivity(sess) == sess

\* The series are keyed by the day, and by the first day of the weekly period.
compute_activity_metrics(sess) ==
    LET date == [i \in 1..Len(sess) |-> sess[i].start_day]
        week == [i \in 1..Len(sess) |-> WeekPeriod(sess[i].start_day)]
        dau == NUniqueUsers(sess, date)
        wau == NUniqueUsers(sess, [i \in 1..Len(sess) |-> week[i].start_time])
        dau_summary == ActivitySummary(dau)
        wau_summary == ActivitySummary(wau)
    IN IF dau_summary.raised # "none" \/ wau_summary.raised # "none"
       THEN [status |-> "ValueError"]
       ELSE [status |-> "ok", week |-> week, dau |-> dau, wau |-> wau,
             dau_index |-> SortIndex(DOMAIN dau), wau_index |-> SortIndex(DOMAIN wau),
             dau_summary |-> dau_summary, wau_summary |-> wau_summary]

(***************************************************************************)
(* compute_feature_adoption.                                               *)
(***************************************************************************)
\* merge(session_users, how="left").dropna(): a row with any missing field
\* (feature_name, usage_timestamp, or the user_id the merge found) is dropped.
UsageWithUsers(sess, usage) ==
    {[user_id |-> SessionUser(sess, e.session_id), feature_name |-> e.feature_name] :
        e \in {x \in usage : /\ SessionUser(sess, x.session_id) # NaN
                             /\ x.feature_name # "NaN"
                             /\ x.usage_timestamp # "NaT"}}

\* sessions["user_id"].nunique()
ActiveUserCount(sess) == Cardinality({sess[i].user_id : i \in 1..Len(sess)} \ {NaN})

\* drop_duplicates + groupby("feature_name")["user_id"].nunique()
FeatureUserCounts(sess, usage) ==
    LET joined == UsageWithUsers(sess, usage)
    IN [f \in {r.feature_name : r \in joined} |->
          Cardinality({r.user_id : r \in {x \in joined : x.feature_name = f}})]

\* sort_values(ascending=False) of a series given in key order: rows of equal
\* count keep the key order.
RECURSIVE SortByCount(_)
SortByCount(rows) ==
    IF Len(rows) <= 1 THEN rows
    ELSE LET rest == SortByCount(Tail(rows))
             x == Head(rows)
             k == Cardinality({i \in 1..Len(rest) : rest[i].unique_users > x.unique_users})
         IN SubSeq(rest, 1, k) \o <<x>> \o SubSeq(rest, k + 1, Len(rest))

\* The division left unguarded.
OverallRate_Mutant(overall_adopters, active_user_count) ==
    Ratio(overall_adopters, active_user_count)

\* overall_adopters / active_user_count if active_user_count else 0.0
OverallRate(overall_adopters, active_user_count) ==
    IF active_user_count # 0 THEN Ratio(overall_adopters, active_user_count) ELSE Zero

compute_feature_adoption(sess, usage) ==
    LET active_user_count == ActiveUserCount(sess)
        counts == FeatureUserCounts(sess, usage)
        keys == SelectSeq(FeatureOrder, LAMBDA f : f \in DOMAIN counts)
        overall_adopters == Cardinality({r.user_id : r \in UsageWithUsers(sess, usage)})
        adoption_table ==
            [i \in 1..Len(keys) |->
                [feature_name |-> keys[i],
                 unique_users |-> counts[keys[i]],
                 adoption_rate |-> Ratio(counts[keys[i]], active_user_count)]]
    IN [status |-> "ok",
        adoption_table |-> SortByCount(adoption_table),
        overall_rate |-> OverallRate(overall_adopters, active_user_count),
        active_user_count |-> active_user_count]

(***************************************************************************)
(* compute_retention.                                                      *)
(***************************************************************************)
retention_days == <<1, 7, 30>>

\* The rows that survive the merge with Users and the filter day_diff >= 0,
\* as pairs <<user_id, day_diff>>.  A session whose user has no row in Users
\* gets a missing signup_date, so its day_diff is NaN and NaN >= 0 is false.
DayDiffRows(usrs, sess) ==
    {<<sess[i].user_id, sess[i].start_day - usrs[sess[i].user_id]>> :
        i \in {j \in 1..Len(sess) :
                 /\ sess[j].user_id \in DOMAIN usrs
                 /\ sess[j].start_day - usrs[sess[j].user_id] >= 0}}

\* groupby("user_id")["day_diff"].apply(set)
DayDiffs(usrs, sess) ==
    LET rows == DayDiffRows(usrs, sess)
    IN [u \in {r[1] : r \in rows} |-> {r[2] : r \in {x \in rows : x[1] = u}}]

\* A "retained by day N" test in place of the exact day.
DayRetained_Mutant(day, diffs) == \E x \in diffs : x >= day

\* day in diffs
DayRetained(day, diffs) == day \in diffs

\* retained / base_users if base_users else 0.0
RetentionRate(retained, base_users) ==
    IF base_users # 0 THEN Ratio(retained, base_users) ELSE Zero

\* The loop over the probe days, for a list of probe days.
RetentionRows(usrs, sess, days) ==
    LET day_diffs == DayDiffs(usrs, sess)
        base_users == Cardinality(DOMAIN day_diffs)
    IN [i \in 1..Len(days) |->
          LET retained == Cardinality({u \in DOMAIN day_diffs : DayRetained(days[i], day_diffs[u])})
          IN [day |-> days[i],
              retained_users |-> retained,
              retention_rate |-> RetentionRate(retained, base_users)]]

compute_retention(usrs, sess) ==
    [status |-> "ok",
     retention |-> RetentionRows(usrs, sess, retention_days),
     base_users |-> Cardinality(DOMAIN DayDiffs(usrs, sess))]

(***************************************************************************)
(* build_funnel_dataframe.                                                 *)
(***************************************************************************)
\* The elementwise division of two float columns: x/0 is +infinity for
\* x > 0 and NaN for x = 0, and nothing is raised.
FloatDiv(a, b) ==
    IF b # 0 THEN Ratio(a, b)
    ELSE IF a = 0 THEN <<0, 0>>
    ELSE IF a > 0 THEN <<1, 0>> ELSE <<-1, 0>>

\* The divisor taken from the first row, as for overall_conversion.
StepConversion_Mutant(stage_users, i) ==
    IF i = 1 THEN One ELSE FloatDiv(stage_users[i], stage_users[1])

\* df["users"] / df["users"].shift(1), then row 0 set to 1.0
StepConversion(stage_users, i) ==
    IF i = 1 THEN One ELSE FloatDiv(stage_users[i], stage_users[i - 1])

\* pd.DataFrame([]) has no "users" column: df["users"] raises KeyError.
build_funnel_dataframe(stages) ==
    IF Len(stages) = 0 THEN [status |-> "KeyError"]
    ELSE LET stage_users == [i \in 1..Len(stages) |-> stages[i].users]
             step_conversion == [i \in 1..Len(stages) |-> StepConversion(stage_users, i)]
         IN [status |-> "ok",
             users |-> stage_users,
             overall_conversion |->
                 [i \in 1..Len(stages) |-> FloatDiv(stage_users[i], stage_users[1])],
             step_conversion |-> step_conversion,
             step_drop |-> [i \in 1..Len(stages) |-> RatSub(One, step_conversion[i])]]

(***************************************************************************)
(* classify_feedback.  A comment is the sequence of its characters.        *)
(***************************************************************************)
POSITIVE_TERMS ==
    <<<<"l", "o", "v", "e">>,
      <<"g", "r", "e", "a", "t">>,
      <<"f", "a", "n", "t", "a", "s", "t", "i", "c">>,
      <<"g", "a", "m", "e", " ", "c", "h", "a", "n", "g", "e", "r">>,
      <<"i", "n", "t", "u", "i", "t", "i", "v", "e">>,
      <<"h", "e", "l", "p", "e", "d">>,
      <<"f", "l", "a", "w", "l", "e", "s", "s">>,
      <<"s", "u", "p", "e", "r">>,
      <<"t", "h", "a", "n", "k", "s">>>>

NEGATIVE_TERMS ==
    <<<<"s", "l", "o", "w">>,
      <<"c", "r", "a", "s", "h">>,
      <<"n", "o", "i", "s", "y">>,
      <<"i", "s", "s", "u", "e">>,
      <<"p", "r", "o", "b", "l", "e", "m">>,
      <<"c", "o", "n", "f", "u", "s", "i", "n", "g">>,
      <<"f", "r", "i", "c", "t", "i", "o", "n">>,
      <<"h", "a", "r", "d">>,
      <<"b", "r", "o", "k", "e", "n">>>>

\* str.lower() on the letters A to Z; every other character is kept.
LowerOf ==
    "A" :> "a" @@ "B" :> "b" @@ "C" :> "c" @@ "D" :> "d" @@ "E" :> "e" @@
    "F" :> "f" @@ "G" :> "g" @@ "H" :> "h" @@ "I" :> "i" @@ "J" :> "j" @@
    "K" :> "k" @@ "L" :> "l" @@ "M" :> "m" @@ "N" :> "n" @@ "O" :> "o" @@
    "P" :> "p" @@ "Q" :> "q" @@ "R" :> "r" @@ "S" :> "s" @@ "T" :> "t" @@
    "U" :> "u" @@ "V" :> "v" @@ "W" :> "w" @@ "X" :> "x" @@ "Y" :> "y" @@
    "Z" :> "z"

Lower(text) ==
    [i \in 1..Len(text) |-> IF text[i] \in DOMAIN LowerOf THEN LowerOf[text[i]] ELSE text[i]]

\* The positions at which term occurs in text.
Occurrences(term, text) ==
    {i \in 1..(Len(text) - Len(term) + 1) : SubSeq(text, i, i + Len(term) - 1) = term}

\* term in comment
Contains(term, text) == Occurrences(term, text) # {}

\* sum(term in comment for term in terms): True counts 1.
RECURSIVE TermHits(_, _)
TermHits(terms, text) ==
    IF terms = <<>> THEN 0
    ELSE (IF Contains(Head(terms), text) THEN 1 ELSE 0) + TermHits(Tail(terms), text)

\* The first branch taken only by the top rating.
RatingScore_Mutant(rating) ==
    IF rating > 4 THEN 1 ELSE IF rating <= 2 THEN -1 ELSE 0

\* if rating >= 4: score += 1 / elif rating <= 2: score -= 1
RatingScore(rating) ==
    IF rating >= 4 THEN 1 ELSE IF rating <= 2 THEN -1 ELSE 0

Label(score) ==
    IF score > 0 THEN "Positive" ELSE IF score < 0 THEN "Negative" ELSE "Neutral"

classify_feedback(row) ==
    LET comment == Lower(row.comments)
        score == RatingScore(row.rating)
                   + TermHits(POSITIVE_TERMS, comment)
                   - TermHits(NEGATIVE_TERMS, comment)
    IN [status |-> "ok", score |-> score, label |-> Label(score)]

(***************************************************************************)
(* compute_feedback_trend.                                                 *)
(***************************************************************************)
\* The first days of January to April of a year whose 1 January is day 0
\* and whose February has 29 days.
MonthStarts == <<0, 31, 60, 91>>

\* dt.to_period("M").dt.to_timestamp(): the first day of the day's month,
\* as a one-element tuple; the missing month (NaT) is the empty tuple.
NaT == <<>>

MonthOf(d) ==
    LET k == CHOOSE i \in 1..Len(MonthStarts) :
                 /\ MonthStarts[i] <= d
                 /\ \A j \in 1..Len(MonthStarts) : MonthStarts[j] <= d => j <= i
    IN <<MonthStarts[k]>>

\* feedback.merge(sessions[["session_id", "start_time"]], how="left") with
\* the month and sentiment columns: a row whose session_id matches no
\* session gets a missing start_time and a missing month.
FeedbackWithMonth(fb, sess) ==
    [i \in 1..Len(fb) |->
        [feedback_id |-> i,
         month |-> IF fb[i].session_id \in 1..Len(sess)
                   THEN MonthOf(sess[fb[i].session_id].start_day) ELSE NaT,
         sentiment |-> classify_feedback(fb[i]).label]]

\* A groupby that keeps the rows without a month as a group of their own.
TrendKeys_Mutant(rows) == {<<rows[i].month, rows[i].sentiment>> : i \in 1..Len(rows)}

\* The keys of groupby(["month", "sentiment"]): rows with a missing key are
\* left out.
TrendKeys(rows) ==
    {<<rows[i].month, rows[i].sentiment>> : i \in {j \in 1..Len(rows) : rows[j].month # NaT}}

\* groupby(["month", "sentiment"])["feedback_id"].count()
compute_feedback_trend(fb, sess) ==
    LET rows == FeedbackWithMonth(fb, sess)
    IN [status |-> "ok",
        summary |->
            [k \in TrendKeys(rows) |->
                Cardinality({i \in 1..Len(rows) :
                    <<rows[i].month, rows[i].sentiment>> = k})]]

(***************************************************************************)
(* Input tables.                                                           *)
(***************************************************************************)
\* Session rows of n sessions, session_ids given in user_id order.
SessionRows(n, ids, days) ==
    {s \in [1..n -> [user_id : ids, start_day : days]] :
        \A i \in 1..(n - 1) :
            \/ s[i].user_id < s[i + 1].user_id
            \/ s[i].user_id = s[i + 1].user_id /\ s[i].start_day <= s[i + 1].start_day}

SessionTables(max, ids, days) == UNION {SessionRows(n, ids, days) : n \in 0..max}

UserTables(ids, days) == UNION {[U -> days] : U \in SUBSET ids}

UsageTables(sids, features, stamps) ==
    SUBSET [session_id : sids, feature_name : features, usage_timestamp : stamps]

\* No script has run: no file of mock_data/ or report/ exists.
NoScriptRun ==
    /\ files = <<>>
    /\ script = [name |-> "none", pc |-> "idle"]
    /\ last = [name |-> "none", status |-> "none", where |-> "none"]

NoResults ==
    /\ activity = Pending
    /\ adoption = Pending
    /\ retention = Pending
    /\ correlation = Pending
    /\ funnel = Pending
    /\ sentiment = Pending
    /\ feedback_trend = Pending

InitCorrelation ==
    /\ users \in UserTables(UserIds, {0})
    /\ sessions \in SessionTables(MaxSessions, UserIds \cup {NaN}, {0})
    /\ feature_usage \in UsageTables(1..MaxSessions, CorrFeatures, {"ts"})
    /\ steps = <<>>
    /\ feedback = <<>>
    /\ feedback_row = [rating |-> 3, comments |-> <<>>]
    /\ NoResults
    /\ NoScriptRun

CorrelationStep ==
    /\ correlation = Pending
    /\ correlation' = compute_feature_repeat_correlation(users, sessions, feature_usage)
    /\ UNCHANGED <<tables, activity, adoption, retention, funnel, sentiment, feedback_trend, scripts>>

InitActivity ==
    /\ users = <<>>
    /\ sessions \in SessionTables(MaxActivitySessions, (1..NumActivityUsers) \cup {NaN}, 0..MaxDay)
    /\ feature_usage = {}
    /\ steps = <<>>
    /\ feedback = <<>>
    /\ feedback_row = [rating |-> 3, comments |-> <<>>]
    /\ NoResults
    /\ NoScriptRun

ActivityStep ==
    /\ activity = Pending
    /\ activity' = compute_activity_metrics(sessions)
    /\ UNCHANGED <<tables, adoption, retention, correlation, funnel, sentiment, feedback_trend, scripts>>

NextActivity == ActivityStep

SpecActivity == InitActivity /\ [][NextActivity]_vars

\* Session tables over three days, one of them after a day without sessions.
DailyDays == {0, 1, 3}
DailyUserIds == {1, 2}

InitDaily ==
    /\ users = <<>>
    /\ sessions \in SessionTables(MaxDailySessions, DailyUserIds \cup {NaN}, DailyDays)
    /\ feature_usage = {}
    /\ steps = <<>>
    /\ feedback = <<>>
    /\ feedback_row = [rating |-> 3, comments |-> <<>>]
    /\ NoResults
    /\ NoScriptRun

NextDaily == ActivityStep

SpecDaily == InitDaily /\ [][NextDaily]_vars

AdoptionStep ==
    /\ adoption = Pending
    /\ adoption' = compute_feature_adoption(sessions, feature_usage)
    /\ UNCHANGED <<tables, activity, retention, correlation, funnel, sentiment, feedback_trend, scripts>>

RetentionStep ==
    /\ retention = Pending
    /\ retention' = compute_retention(users, sessions)
    /\ UNCHANGED <<tables, activity, adoption, correlation, funnel, sentiment, feedback_trend, scripts>>

\* Tables for the two rate analyzers: every user signs up on day 1, sessions
\* start on day 0 or day 1, and usage rows may miss a field.
RateDays == {0, 1}

InitRates ==
    /\ users \in UserTables(1..NumRateUsers, {1})
    /\ sessions \in SessionTables(MaxRateSessions, (1..NumRateUsers) \cup {NaN}, RateDays)
    /\ feature_usage \in
         {t \in UsageTables(1..MaxRateSessions, {"Dashboard", "NaN"}, {"ts", "NaT"}) :
             Cardinality(t) <= MaxRateEvents}
    /\ steps = <<>>
    /\ feedback = <<>>
    /\ feedback_row = [rating |-> 3, comments |-> <<>>]
    /\ NoResults
    /\ NoScriptRun

NextRates == AdoptionStep \/ RetentionStep

SpecRates == InitRates /\ [][NextRates]_vars

\* Tables for retention: signups on day 0 or 1 and sessions on the days that
\* put an offset just before, on and just after each probe day.
SignupDays == {0, 1}
SessionDays == {0, 1, 2, 7, 8, 30, 31}

InitRetention ==
    /\ users \in UserTables(1..NumRetentionUsers, SignupDays)
    /\ sessions \in SessionTables(MaxRetentionSessions,
                                  (1..NumRetentionUsers) \cup {NaN}, SessionDays)
    /\ feature_usage = {}
    /\ steps = <<>>
    /\ feedback = <<>>
    /\ feedback_row = [rating |-> 3, comments |-> <<>>]
    /\ NoResults
    /\ NoScriptRun

NextRetention == RetentionStep

SpecRetention == InitRetention /\ [][NextRetention]_vars

\* Stage names of FUNNEL_STEPS, given to the rows of a stage list in order.
StageNames ==
    <<"Visited Landing Page", "Started Sign Up", "Account Created", "First Transaction">>

StageLists ==
    UNION {{[i \in 1..n |-> [stage |-> StageNames[i], users |-> c[i]]] :
               c \in [1..n -> 0..MaxStageUsers]} : n \in 0..MaxStages}

InitFunnel ==
    /\ users = <<>>
    /\ sessions = <<>>
    /\ feature_usage = {}
    /\ steps \in StageLists
    /\ feedback = <<>>
    /\ feedback_row = [rating |-> 3, comments |-> <<>>]
    /\ NoResults
    /\ NoScriptRun

FunnelStep ==
    /\ funnel = Pending
    /\ funnel' = build_funnel_dataframe(steps)
    /\ UNCHANGED <<tables, activity, adoption, retention, correlation, sentiment, feedback_trend, scripts>>

NextFunnel == FunnelStep

SpecFunnel == InitFunnel /\ [][NextFunnel]_vars

\* Comments are built from a few fragments: terms of both lists in lower and
\* upper case, a letter that makes a longer word of a term, and a space.
Fragments ==
    {<<"l", "o", "v", "e">>, <<"G", "r", "e", "a", "t">>, <<"d">>,
     <<"s", "l", "o", "w">>, <<"C", "R", "A", "S", "H">>, <<" ">>}

RECURSIVE Concat(_)
Concat(parts) == IF parts = <<>> THEN <<>> ELSE Head(parts) \o Concat(Tail(parts))

Comments == {Concat(parts) : parts \in UNION {[1..n -> Fragments] : n \in 0..MaxFragments}}

\* The ratings of a feedback row, as generate_feedback draws them.
Ratings == 1..5

InitFeedback ==
    /\ users = <<>>
    /\ sessions = <<>>
    /\ feature_usage = {}
    /\ steps = <<>>
    /\ feedback = <<>>
    /\ feedback_row \in [rating : Ratings, comments : Comments]
    /\ NoResults
    /\ NoScriptRun

ClassifyStep ==
    /\ sentiment = Pending
    /\ feedback_trend = Pending
    /\ sentiment' = classify_feedback(feedback_row)
    /\ UNCHANGED <<tables, activity, adoption, retention, correlation, funnel, feedback_trend, scripts>>

NextFeedback == ClassifyStep

SpecFeedback == InitFeedback /\ [][NextFeedback]_vars

FeedbackTrendStep ==
    /\ feedback_trend = Pending
    /\ feedback_trend' = compute_feedback_trend(feedback, sessions)
    /\ UNCHANGED <<tables, activity, adoption, retention, correlation, funnel, sentiment, scripts>>

\* Feedback tables of at most max rows, the feedback_ids given in the order
\* of session_id and rating.
FeedbackTables(max, sids, ratings, comments) ==
    UNION {{t \in [1..n -> [session_id : sids, rating : ratings, comments : comments]] :
               \A i \in 1..(n - 1) :
                   \/ t[i].session_id < t[i + 1].session_id
                   \/ /\ t[i].session_id = t[i + 1].session_id
                      /\ t[i].rating <= t[i + 1].rating} : n \in 0..max}

\* Tables whose usage and feedback rows may name a session that does not
\* exist: session_ids run one past the largest possible session table.
\* Sessions start in January (day 0) or February (day 31); the session table
\* has at least one row, so that its start_time column holds datetimes.
GapDays == {0, 31}
GapUserIds == {1, 2}

InitGaps ==
    /\ users = [u \in GapUserIds |-> 0]
    /\ sessions \in SessionTables(MaxGapSessions, GapUserIds, GapDays)
    /\ Len(sessions) > 0
    /\ feature_usage \in UsageTables(1..(MaxGapSessions + 1), CorrFeatures, {"ts"})
    /\ feedback \in FeedbackTables(MaxGapFeedback, 1..(MaxGapSessions + 1), {1, 5}, {<<>>})
    /\ steps = <<>>
    /\ feedback_row = [rating |-> 3, comments |-> <<>>]
    /\ NoResults
    /\ NoScriptRun

NextGaps == AdoptionStep \/ CorrelationStep \/ FeedbackTrendStep

SpecGaps == InitGaps /\ [][NextGaps]_vars

\* The two analyzers that join usage rows to users, on the tables of the
\* rate analyzers, whose usage rows may miss a field.
NextJoin == AdoptionStep \/ CorrelationStep

SpecJoin == InitRates /\ [][NextJoin]_vars

\* Tables with two features, so that the result has rows to order; user 3
\* owns sessions without being in Users.
RankFeatures == {"Dashboard", "Insights"}
RankUserIds == {1, 2}

InitRanking ==
    /\ users \in UserTables(RankUserIds, {0})
    /\ sessions \in SessionTables(MaxRankSessions, RankUserIds \cup {3, NaN}, {0})
    /\ feature_usage \in UsageTables(1..MaxRankSessions, RankFeatures, {"ts"})
    /\ steps = <<>>
    /\ feedback = <<>>
    /\ feedback_row = [rating |-> 3, comments |-> <<>>]
    /\ NoResults
    /\ NoScriptRun

NextRanking == CorrelationStep

SpecRanking == InitRanking /\ [][NextRanking]_vars

NextCorrelation == CorrelationStep

SpecCorrelation == InitCorrelation /\ [][NextCorrelation]_vars

(***************************************************************************)
(* What the tables say, stated without the analyzer's intermediate series. *)
(***************************************************************************)
SessionsOf(u) == {i \in 1..Len(sessions) : sessions[i].user_id = u}
IsRepeatUser(u) == Cardinality(SessionsOf(u)) >= 2
UsedFeature(u, f) ==
    \E e \in feature_usage : e.feature_name = f /\ e.session_id \in SessionsOf(u)
SessionUsersKnown == \A i \in 1..Len(sessions) : sessions[i].user_id \in DOMAIN users
CorrelationRows == {correlation.stats[i] : i \in 1..Len(correlation.stats)}

\* C1: when every session's user_id appears in Users (session_ids being
\* unique), each reported row has tp = repeat users who used the feature,
\* fp = non-repeat users who used it, fn = repeat users who did not, tn =
\* non-repeat users who did not; so the four counts are >= 0 and sum to the
\* number of rows of Users.
C1_ContingencyCounts ==
    (correlation.status = "ok" /\ SessionUsersKnown) =>
        \A r \in CorrelationRows :
            LET f == r.feature_name
                U == DOMAIN users
            IN /\ r.tp = Cardinality({u \in U : IsRepeatUser(u) /\ UsedFeature(u, f)})
               /\ r.fp = Cardinality({u \in U : ~IsRepeatUser(u) /\ UsedFeature(u, f)})
               /\ r.fn = Cardinality({u \in U : IsRepeatUser(u) /\ ~UsedFeature(u, f)})
               /\ r.tn = Cardinality({u \in U : ~IsRepeatUser(u) /\ ~UsedFeature(u, f)})
               /\ r.tp >= 0 /\ r.fp >= 0 /\ r.fn >= 0 /\ r.tn >= 0
               /\ r.tp + r.fp + r.fn + r.tn = Cardinality(U)

\* C1 witness: a row with all four cells populated, one of the non-repeat
\* users having no session at all.
C1_Witness ==
    /\ correlation.status = "ok"
    /\ SessionUsersKnown
    /\ \E u \in DOMAIN users : SessionsOf(u) = {}
    /\ \E r \in CorrelationRows : r.tp > 0 /\ r.fp > 0 /\ r.fn > 0 /\ r.tn > 0

\* C2: compute_feature_repeat_correlation never raises and gives every
\* reported feature a defined phi, whatever the tables hold.
C2_NeverRaises ==
    correlation.status # "pending" =>
        /\ correlation.status = "ok"
        /\ \A r \in CorrelationRows : r.phi.raised = "none"

\* C3: every reported row has phi and repeat_rate_lift in [-1, 1], and phi
\* is 0 whenever a margin of its contingency table is 0.
C3_PhiLiftBounded ==
    correlation.status = "ok" =>
        \A r \in CorrelationRows :
            /\ PhiInUnit(r.phi)
            /\ RatInUnit(r.repeat_rate_lift)
            /\ (\/ r.tp + r.fp = 0 \/ r.tp + r.fn = 0
                \/ r.tn + r.fp = 0 \/ r.tn + r.fn = 0) => PhiIsZero(r.phi)

\* The Monday-to-Sunday week a day lies in, numbered from day 0 (a Monday).
IsoWeek(d) == d \div DaysPerWeek

\* C4: two sessions fall in the same WAU period exactly when their start
\* dates lie in the same Monday-to-Sunday week.
C4_WeeksStartMonday ==
    activity.status = "ok" =>
        \A i, j \in 1..Len(sessions) :
            (activity.week[i] = activity.week[j])
                <=> (IsoWeek(sessions[i].start_day) = IsoWeek(sessions[j].start_day))

\* C5: on an empty Sessions table compute_activity_metrics does not raise
\* and returns empty series whose summaries count 0 periods.
C5_EmptySessionsNoRaise ==
    (Len(sessions) = 0 /\ activity.status # "pending") =>
        /\ activity.status = "ok"
        /\ DOMAIN activity.dau = {} /\ DOMAIN activity.wau = {}
        /\ activity.dau_summary.observed = 0
        /\ activity.wau_summary.observed = 0

\* C6: with active_user_count = 0 compute_feature_adoption returns
\* overall_rate = 0.0 and computes no adoption row by a division by zero;
\* with cohort_size = 0 compute_retention returns retention_rate = 0.0 for
\* each of the probe days 1, 7 and 30.
C6_ZeroDivisorsGiveZero ==
    /\ (adoption.status # "pending" /\ adoption.active_user_count = 0) =>
          /\ adoption.status = "ok"
          /\ adoption.overall_rate = Zero
          /\ \A i \in 1..Len(adoption.adoption_table) :
                RatFinite(adoption.adoption_table[i].adoption_rate)
    /\ (retention.status # "pending" /\ retention.base_users = 0) =>
          /\ retention.status = "ok"
          /\ {retention.retention[i].day : i \in 1..Len(retention.retention)} = {1, 7, 30}
          /\ \A i \in 1..Len(retention.retention) :
                retention.retention[i].retention_rate = Zero

\* C6 witness: both analyzers have run on tables that hold sessions and
\* usage rows, and both divisors are 0.
C6_Witness ==
    /\ adoption.status = "ok" /\ adoption.active_user_count = 0
    /\ retention.status = "ok" /\ retention.base_users = 0
    /\ Len(sessions) > 0 /\ DOMAIN users # {}
    /\ \E e \in feature_usage :
          /\ e.session_id <= Len(sessions)
          /\ e.feature_name # "NaN" /\ e.usage_timestamp # "NaT"

\* The whole-day offset of session i from its user's signup date.
Offset(i) == sessions[i].start_day - users[sessions[i].user_id]
HasSignup(i) == sessions[i].user_id \in DOMAIN users
Cohort == {u \in DOMAIN users :
             \E i \in 1..Len(sessions) : sessions[i].user_id = u /\ Offset(i) >= 0}

\* C9: cohort_size is the number of users with a session at an offset >= 0
\* (sessions before signup and sessions of users without a signup date count
\* nowhere); for each probe d, retained_users is the number of cohort users
\* with a session at offset exactly d, the same count as when d is probed
\* alone.
C9_ExactDayRetention ==
    retention.status = "ok" =>
        /\ retention.base_users = Cardinality(Cohort)
        /\ Len(retention.retention) = Len(retention_days)
        /\ \A k \in 1..Len(retention.retention) :
              LET row == retention.retention[k]
                  d == retention_days[k]
              IN /\ row.day = d
                 /\ row.retained_users =
                       Cardinality({u \in Cohort :
                           \E i \in 1..Len(sessions) :
                               sessions[i].user_id = u /\ Offset(i) = d})
                 /\ row.retained_users = RetentionRows(users, sessions, <<d>>)[1].retained_users

\* C9 witness: one cohort user retained at day 7, another with a session
\* one day off the probe, and a session that is before signup or belongs to
\* a user without a signup date.
C9_Witness ==
    /\ retention.status = "ok"
    /\ retention.retention[2].retained_users > 0
    /\ retention.retention[2].retained_users < retention.base_users
    /\ \E i \in 1..Len(sessions) : HasSignup(i) /\ Offset(i) \in {6, 8}
    /\ \E i \in 1..Len(sessions) : ~HasSignup(i) \/ Offset(i) < 0

\* C7: when users[0] is 0 the overall conversions are 0.0, and when
\* users[i-1] is 0 step_conversion[i] is 0.0, not NaN or an infinity.
C7_FunnelDivisorsGuarded ==
    funnel.status = "ok" =>
        \A i \in 1..Len(steps) :
            /\ steps[1].users = 0 => RatIsZero(funnel.overall_conversion[i])
            /\ (i > 1 /\ steps[i - 1].users = 0) => RatIsZero(funnel.step_conversion[i])

RECURSIVE RatProduct(_, _)
RatProduct(col, n) == IF n = 0 THEN One ELSE RatMul(RatProduct(col, n - 1), col[n])

AllStagesPositive == Len(steps) > 0 /\ \A i \in 1..Len(steps) : steps[i].users > 0

\* C8: for a stage list of positive counts, overall_conversion and
\* step_conversion are 1 on the first row; on a later row step_conversion is
\* users[i] / users[i-1] and overall_conversion is users[i] / users[0], the
\* product of the step conversions up to the row; step_drop is
\* 1 - step_conversion on every row, 0 on the first.
C8_FunnelConversions ==
    (funnel.status # "pending" /\ AllStagesPositive) =>
        /\ funnel.status = "ok"
        /\ RatEq(funnel.overall_conversion[1], One)
        /\ RatEq(funnel.step_conversion[1], One)
        /\ RatIsZero(funnel.step_drop[1])
        /\ \A i \in 1..Len(steps) :
              /\ i > 1 => RatEq(funnel.step_conversion[i],
                                <<steps[i].users, steps[i - 1].users>>)
              /\ RatEq(funnel.overall_conversion[i], <<steps[i].users, steps[1].users>>)
              /\ RatEq(funnel.overall_conversion[i], RatProduct(funnel.step_conversion, i))
              /\ RatEq(funnel.step_drop[i], RatSub(One, funnel.step_conversion[i]))
              /\ RatEq(funnel.step_drop[i],
                       IF i = 1 THEN Zero
                       ELSE <<steps[i - 1].users - steps[i].users, steps[i - 1].users>>)

\* C8 witness: a funnel of three positive stages that narrows at each step.
C8_Witness ==
    /\ funnel.status = "ok"
    /\ AllStagesPositive
    /\ Len(steps) >= 3
    /\ \A i \in 2..Len(steps) : steps[i].users < steps[i - 1].users

TermSet(terms) == {terms[i] : i \in 1..Len(terms)}
LowerComment == Lower(feedback_row.comments)
RatingPart ==
    IF feedback_row.rating >= 4 THEN 1 ELSE IF feedback_row.rating <= 2 THEN -1 ELSE 0
PositiveFound == {t \in TermSet(POSITIVE_TERMS) : Occurrences(t, LowerComment) # {}}
NegativeFound == {t \in TermSet(NEGATIVE_TERMS) : Occurrences(t, LowerComment) # {}}

\* The score that counts every occurrence of every term.
OccurrenceScore ==
    RatingPart
      + SetSum(TermSet(POSITIVE_TERMS),
               [t \in TermSet(POSITIVE_TERMS) |-> Cardinality(Occurrences(t, LowerComment))])
      - SetSum(TermSet(NEGATIVE_TERMS),
               [t \in TermSet(NEGATIVE_TERMS) |-> Cardinality(Occurrences(t, LowerComment))])

\* The score that counts each term once, however often it occurs.
PresenceScore == RatingPart + Cardinality(PositiveFound) - Cardinality(NegativeFound)

\* C10 as stated: the label is the sign of the score that starts from the
\* rating's contribution, adds 1 for each occurrence of a positive term in
\* the lower-cased comment and subtracts 1 for each occurrence of a negative
\* term.
C10_ScorePerOccurrence ==
    sentiment.status = "ok" =>
        sentiment.label =
            (IF OccurrenceScore > 0 THEN "Positive"
             ELSE IF OccurrenceScore < 0 THEN "Negative" ELSE "Neutral")

\* C10 amended: the score adds 1 for each positive-list term that occurs at
\* least once in the lower-cased comment and subtracts 1 for each
\* negative-list term that occurs at least once; rating >= 4 adds 1,
\* rating <= 2 subtracts 1; the label is Positive, Negative or Neutral as the
\* score is > 0, < 0 or 0.  Rating 5 with only positive terms is Positive,
\* rating 1 with only negative terms is Negative, rating 3 with an empty
\* comment is Neutral.
C10_ScorePerTerm ==
    sentiment.status = "ok" =>
        /\ sentiment.score = PresenceScore
        /\ sentiment.label =
              (IF PresenceScore > 0 THEN "Positive"
               ELSE IF PresenceScore < 0 THEN "Negative" ELSE "Neutral")
        /\ (feedback_row.rating = 5 /\ NegativeFound = {}) => sentiment.label = "Positive"
        /\ (feedback_row.rating = 4 /\ NegativeFound = {}) => sentiment.label = "Positive"
        /\ (feedback_row.rating = 1 /\ PositiveFound = {}) => sentiment.label = "Negative"
        /\ (feedback_row.rating = 3 /\ feedback_row.comments = <<>>)
              => sentiment.label = "Neutral"

\* C10 witness: a rating of 4 with a positive term in capitals and a negative
\* term that occurs twice, classified Positive with score 1.
C10_Witness ==
    /\ sentiment.status = "ok"
    /\ feedback_row.rating = 4
    /\ PositiveFound # {}
    /\ Occurrences(<<"G", "r", "e", "a", "t">>, feedback_row.comments) # {}
    /\ \E t \in NegativeFound : Cardinality(Occurrences(t, LowerComment)) >= 2
    /\ sentiment.score = 1
    /\ sentiment.label = "Positive"

(***************************************************************************)
(* The scripts and the files they read and write.  A script run goes        *)
(* through the steps of its main; runs follow one another, each ending by   *)
(* returning or by an exception that ends the process.  No script removes  *)
(* a file.  The mock data, once generated, is data the dashboard's trend    *)
(* functions, chart and slides accept.                                      *)
(***************************************************************************)
MockDataFiles == <<"users.csv", "sessions.csv", "feature_usage.csv", "feedback.csv">>

DashboardExtracts ==
    {"dashboard_dau.csv", "dashboard_feature_trend.csv",
     "dashboard_retention.csv", "dashboard_feedback_trend.csv"}

DashboardOutputs == {"dashboard_overview.png", "executive_summary.pptx"} \cup DashboardExtracts

\* The columns of the frame build_funnel_dataframe returns.
FunnelColumns == <<"stage", "users", "overall_conversion", "step_conversion", "step_drop">>

\* A rename that leaves step_drop under its old name.
RenameColumn_Mutant(c) ==
    IF c = "overall_conversion" THEN "overall_conversion_pct"
    ELSE IF c = "step_conversion" THEN "step_conversion_pct"
    ELSE c

\* df_out.rename(columns={...})
RenameColumn(c) ==
    IF c = "overall_conversion" THEN "overall_conversion_pct"
    ELSE IF c = "step_conversion" THEN "step_conversion_pct"
    ELSE IF c = "step_drop" THEN "step_drop_pct"
    ELSE c

\* The header of the table save_table writes.
SaveTableColumns == [i \in 1..Len(FunnelColumns) |-> RenameColumn(FunnelColumns[i])]

\* The columns render_dashboard reads from the funnel table.
RenderColumns == {"stage", "users", "step_drop_pct"}

ColumnsOf(file) == {file.columns[i] : i \in 1..Len(file.columns)}

Exists(name) == name \in DOMAIN files

WriteFile(name, columns) == (name :> [columns |-> columns]) @@ files

Idle == script.name = "none"

Finish(name, status, where) ==
    /\ script' = [name |-> "none", pc |-> "idle"]
    /\ last' = [name |-> name, status |-> status, where |-> where]

NoAnalysis ==
    UNCHANGED <<tables, activity, adoption, retention, correlation, funnel, sentiment, feedback_trend>>

\* generate_mock_data.main: the four tables are generated, then written one
\* file after the other.
MockDataStart ==
    /\ Idle
    /\ script' = [name |-> "generate_mock_data", pc |-> 1]
    /\ UNCHANGED <<files, last>>
    /\ NoAnalysis

MockDataWrite ==
    /\ script.name = "generate_mock_data"
    /\ files' = WriteFile(MockDataFiles[script.pc], <<>>)
    /\ IF script.pc < Len(MockDataFiles)
       THEN script' = [script EXCEPT !.pc = script.pc + 1] /\ UNCHANGED last
       ELSE Finish("generate_mock_data", "ok", "main")
    /\ NoAnalysis

\* generate_funnel.main
FunnelStart ==
    /\ Idle
    /\ script' = [name |-> "generate_funnel", pc |-> "render_funnel_chart"]
    /\ UNCHANGED <<files, last>>
    /\ NoAnalysis

FunnelRenderChart ==
    /\ script = [name |-> "generate_funnel", pc |-> "render_funnel_chart"]
    /\ files' = WriteFile("funnel.png", <<>>)
    /\ script' = [script EXCEPT !.pc = "save_table"]
    /\ UNCHANGED last
    /\ NoAnalysis

FunnelSaveTable ==
    /\ script = [name |-> "generate_funnel", pc |-> "save_table"]
    /\ files' = WriteFile("funnel_table.csv", SaveTableColumns)
    /\ Finish("generate_funnel", "ok", "main")
    /\ NoAnalysis

\* generate_dashboard.main
DashboardStart ==
    /\ Idle
    /\ script' = [name |-> "generate_dashboard", pc |-> "load_datasets"]
    /\ UNCHANGED <<files, last>>
    /\ NoAnalysis

\* load_datasets, then the trend functions of the loaded tables.
DashboardLoadDatasets ==
    /\ script = [name |-> "generate_dashboard", pc |-> "load_datasets"]
    /\ IF \A i \in 1..Len(MockDataFiles) : Exists(MockDataFiles[i])
       THEN script' = [script EXCEPT !.pc = "load_funnel_table"] /\ UNCHANGED last
       ELSE Finish("generate_dashboard", "FileNotFoundError", "load_datasets")
    /\ UNCHANGED files
    /\ NoAnalysis

DashboardLoadFunnelTable ==
    /\ script = [name |-> "generate_dashboard", pc |-> "load_funnel_table"]
    /\ IF Exists("funnel_table.csv")
       THEN script' = [script EXCEPT !.pc = "render_dashboard"] /\ UNCHANGED last
       ELSE Finish("generate_dashboard", "FileNotFoundError", "load_funnel_table")
    /\ UNCHANGED files
    /\ NoAnalysis

\* compute_feedback_trend, then render_dashboard: a column the chart reads
\* and the table lacks is a KeyError.
DashboardRender ==
    /\ script = [name |-> "generate_dashboard", pc |-> "render_dashboard"]
    /\ IF RenderColumns \subseteq ColumnsOf(files["funnel_table.csv"])
       THEN /\ files' = WriteFile("dashboard_overview.png", <<>>)
            /\ script' = [script EXCEPT !.pc = "build_executive_summary"]
            /\ UNCHANGED last
       ELSE /\ Finish("generate_dashboard", "KeyError", "render_dashboard")
            /\ UNCHANGED files
    /\ NoAnalysis

DashboardSummary ==
    /\ script = [name |-> "generate_dashboard", pc |-> "build_executive_summary"]
    /\ files' = WriteFile("executive_summary.pptx", <<>>)
    /\ script' = [script EXCEPT !.pc = "to_csv"]
    /\ UNCHANGED last
    /\ NoAnalysis

DashboardExport ==
    /\ script = [name |-> "generate_dashboard", pc |-> "to_csv"]
    /\ files' = [n \in DashboardExtracts |-> [columns |-> <<>>]] @@ files
    /\ Finish("generate_dashboard", "ok", "main")
    /\ NoAnalysis

\* analyze_metrics.main
MetricsStart ==
    /\ Idle
    /\ script' = [name |-> "analyze_metrics", pc |-> "load_datasets"]
    /\ UNCHANGED <<files, last>>
    /\ NoAnalysis

MetricsLoadDatasets ==
    /\ script = [name |-> "analyze_metrics", pc |-> "load_datasets"]
    /\ IF \A i \in 1..Len(MockDataFiles) : Exists(MockDataFiles[i])
       THEN script' = [script EXCEPT !.pc = "render_markdown"] /\ UNCHANGED last
       ELSE Finish("analyze_metrics", "FileNotFoundError", "load_datasets")
    /\ UNCHANGED files
    /\ NoAnalysis

\* The analyzers and render_markdown on the generated data, then the write
\* of the summary.
MetricsWriteSummary ==
    /\ script = [name |-> "analyze_metrics", pc |-> "render_markdown"]
    /\ files' = WriteFile("metrics_summary.md", <<>>)
    /\ Finish("analyze_metrics", "ok", "main")
    /\ NoAnalysis

InitScripts ==
    /\ users = <<>>
    /\ sessions = <<>>
    /\ feature_usage = {}
    /\ steps = <<>>
    /\ feedback = <<>>
    /\ feedback_row = [rating |-> 3, comments |-> <<>>]
    /\ NoResults
    /\ NoScriptRun

NextScripts ==
    \/ MockDataStart \/ MockDataWrite
    \/ FunnelStart \/ FunnelRenderChart \/ FunnelSaveTable
    \/ DashboardStart \/ DashboardLoadDatasets \/ DashboardLoadFunnelTable
    \/ DashboardRender \/ DashboardSummary \/ DashboardExport
    \/ MetricsStart \/ MetricsLoadDatasets \/ MetricsWriteSummary

SpecScripts == InitScripts /\ [][NextScripts]_vars

(***************************************************************************)
(* The engine: the analyzers as tasks over the shared tables, run in any    *)
(* order and any number of times.  A task writes its own result and leaves  *)
(* in the caller's tables what its code leaves there.                       *)
(***************************************************************************)
RunActivity ==
    /\ activity' = compute_activity_metrics(sessions)
    /\ sessions' = SessionsAfterActivity(sessions)
    /\ UNCHANGED <<users, feature_usage, feedback, steps, feedback_row,
                   adoption, retention, correlation, funnel, sentiment, feedback_trend, scripts>>

RunAdoption ==
    /\ adoption' = compute_feature_adoption(sessions, feature_usage)
    /\ UNCHANGED <<tables, activity, retention, correlation, funnel, sentiment, feedback_trend, scripts>>

RunRetention ==
    /\ retention' = compute_retention(users, sessions)
    /\ UNCHANGED <<tables, activity, adoption, correlation, funnel, sentiment, feedback_trend, scripts>>

RunCorrelation ==
    /\ correlation' = compute_feature_repeat_correlation(users, sessions, feature_usage)
    /\ UNCHANGED <<tables, activity, adoption, retention, funnel, sentiment, feedback_trend, scripts>>

RunFeedbackTrend ==
    /\ feedback_trend' = compute_feedback_trend(feedback, sessions)
    /\ UNCHANGED <<tables, activity, adoption, retention, correlation, funnel, sentiment, scripts>>

EngineUserIds == {1, 2}
EngineDays == {0, 1}

Init ==
    /\ users \in UserTables(EngineUserIds, {0})
    /\ sessions \in SessionTables(MaxEngineSessions, EngineUserIds, EngineDays)
    /\ Len(sessions) > 0
    /\ feature_usage \in UsageTables(1..MaxEngineSessions, CorrFeatures, {"ts"})
    /\ feedback \in FeedbackTables(1, 1..MaxEngineSessions, {1, 5}, {<<>>})
    /\ steps = <<>>
    /\ feedback_row = [rating |-> 3, comments |-> <<>>]
    /\ NoResults
    /\ NoScriptRun

Next == RunActivity \/ RunAdoption \/ RunRetention \/ RunCorrelation \/ RunFeedbackTrend

Spec == Init /\ [][Next]_vars

\* The usage and feedback rows whose session_id names a session that exists.
KnownUsage == {e \in feature_usage : e.session_id \in 1..Len(sessions)}
KnownFeedback == {i \in 1..Len(feedback) : feedback[i].session_id \in 1..Len(sessions)}

\* C11: rows naming a session_id absent from Sessions raise nothing and are
\* counted nowhere: the adoption and correlation results are those of the
\* usage table without such rows, and the feedback buckets count exactly the
\* feedback rows whose session exists, each in the month of its session.
C11_UnknownSessionsDropped ==
    /\ adoption.status # "pending" =>
          adoption = compute_feature_adoption(sessions, KnownUsage)
    /\ correlation.status # "pending" =>
          /\ correlation.status = "ok"
          /\ correlation = compute_feature_repeat_correlation(users, sessions, KnownUsage)
          /\ \A r \in CorrelationRows :
                r.users_used = Cardinality({sessions[e.session_id].user_id : e \in KnownUsage})
    /\ feedback_trend.status # "pending" =>
          /\ feedback_trend.status = "ok"
          /\ SetSum(DOMAIN feedback_trend.summary, feedback_trend.summary)
                = Cardinality(KnownFeedback)
          /\ \A k \in DOMAIN feedback_trend.summary :
                feedback_trend.summary[k] =
                    Cardinality({i \in KnownFeedback :
                        /\ MonthOf(sessions[feedback[i].session_id].start_day) = k[1]
                        /\ classify_feedback(feedback[i]).label = k[2]})

\* C11 witness: the three analyzers have run on tables that hold a usage row
\* and a feedback row of an unknown session beside rows of known sessions.
C11_Witness ==
    /\ adoption.status = "ok" /\ correlation.status = "ok" /\ feedback_trend.status = "ok"
    /\ KnownUsage # {} /\ KnownUsage # feature_usage
    /\ KnownFeedback # {} /\ KnownFeedback # 1..Len(feedback)
    /\ Cardinality(DOMAIN feedback_trend.summary) >= 1

\* 0 <= p <= 1
RatIsRate(p) == p[2] # 0 /\ p[1] * p[2] >= 0 /\ Abs(p[1]) <= Abs(p[2])

\* C12: for any tables every rate lies in [0, 1]: each adoption_rate and the
\* overall_rate, each retention_rate (retained_users <= cohort size), and
\* each repeat_rate_used and repeat_rate_not_used.
C12_RatesInUnit ==
    /\ adoption.status = "ok" =>
          /\ RatIsRate(adoption.overall_rate)
          /\ \A i \in 1..Len(adoption.adoption_table) :
                RatIsRate(adoption.adoption_table[i].adoption_rate)
    /\ retention.status = "ok" =>
          \A i \in 1..Len(retention.retention) :
              /\ retention.retention[i].retained_users <= retention.base_users
              /\ RatIsRate(retention.retention[i].retention_rate)
    /\ correlation.status = "ok" =>
          \A r \in CorrelationRows :
              /\ RatIsRate(r.repeat_rate_used)
              /\ RatIsRate(r.repeat_rate_not_used)

\* Scenario A: U1 twice and U2 once on day 0, U1 once on day 1.
ScenarioA ==
    <<[user_id |-> 1, start_day |-> 0], [user_id |-> 1, start_day |-> 0],
      [user_id |-> 1, start_day |-> 1], [user_id |-> 2, start_day |-> 0]>>

\* C13: the daily series has exactly one entry for each day on which a
\* session started and none for any other day, its entries are in ascending
\* order of the day, and the value of a day is the number of distinct
\* user_ids with a session starting that day; Scenario A gives 2 and 1.
C13_DailySeries ==
    activity.status = "ok" =>
        /\ DOMAIN activity.dau = {sessions[i].start_day : i \in 1..Len(sessions)}
        /\ Len(activity.dau_index) = Cardinality(DOMAIN activity.dau)
        /\ {activity.dau_index[i] : i \in 1..Len(activity.dau_index)} = DOMAIN activity.dau
        /\ \A i \in 1..(Len(activity.dau_index) - 1) :
              activity.dau_index[i] < activity.dau_index[i + 1]
        /\ \A d \in DOMAIN activity.dau :
              activity.dau[d] =
                  Cardinality({u \in DailyUserIds :
                      \E i \in 1..Len(sessions) :
                          sessions[i].user_id = u /\ sessions[i].start_day = d})
        /\ sessions = ScenarioA => activity.dau = (0 :> 2 @@ 1 :> 1)

\* C13 witness: the analyzer has run on Scenario A.
C13_Witness ==
    /\ activity.status = "ok"
    /\ sessions = ScenarioA
    /\ activity.dau_index = <<0, 1>>

\* The users owning a session that has a usage event for feature f, and
\* the users owning a session that has a usage event for any feature.
Adopters(f) ==
    {SessionUser(sessions, e.session_id) : e \in {x \in feature_usage : x.feature_name = f}} \ {NaN}
AnyAdopters ==
    {SessionUser(sessions, e.session_id) : e \in {x \in feature_usage : x.feature_name # "NaN"}} \ {NaN}
AdoptedFeatures == {f \in {e.feature_name : e \in feature_usage} \ {"NaN"} : Adopters(f) # {}}

\* C14: the adoption table has a row for every feature with an adopter, its
\* unique_users is the number of distinct users owning a session with a
\* usage event for the feature, adoption_rate is unique_users over the
\* number of distinct users with a session, overall_rate is the number of
\* distinct users with any joined usage event over the same divisor, and the
\* rows are in non-increasing order of unique_users.
C14_AdoptionCounts ==
    adoption.status = "ok" =>
        LET rows == adoption.adoption_table
        IN /\ {rows[i].feature_name : i \in 1..Len(rows)} = AdoptedFeatures
           /\ Len(rows) = Cardinality(AdoptedFeatures)
           /\ adoption.active_user_count = ActiveUserCount(sessions)
           /\ \A i \in 1..Len(rows) :
                 /\ rows[i].unique_users = Cardinality(Adopters(rows[i].feature_name))
                 /\ RatEq(rows[i].adoption_rate,
                          Ratio(rows[i].unique_users, ActiveUserCount(sessions)))
           /\ ActiveUserCount(sessions) # 0 =>
                 RatEq(adoption.overall_rate,
                       Ratio(Cardinality(AnyAdopters), ActiveUserCount(sessions)))
           /\ \A i \in 1..(Len(rows) - 1) : rows[i].unique_users >= rows[i + 1].unique_users

\* The feature names with a usage event joined to a session and its user.
JoinedFeatures ==
    {e.feature_name : e \in {x \in feature_usage : SessionUser(sessions, x.session_id) # NaN}}
        \ {"NaN"}

\* C15: the returned list is in non-increasing order of phi (no row has a
\* smaller phi than the row after it) and holds exactly one row for each
\* feature name with a usage event joined to a session.
C15_RankedByPhi ==
    correlation.status = "ok" =>
        LET stats == correlation.stats
        IN /\ \A i \in 1..(Len(stats) - 1) : ~PhiGreater(stats[i + 1].phi, stats[i].phi)
           /\ {stats[i].feature_name : i \in 1..Len(stats)} = JoinedFeatures
           /\ Len(stats) = Cardinality(JoinedFeatures)

\* C15 witness: two rows of different phi, returned in the reverse of the
\* order of their feature names.
C15_Witness ==
    /\ correlation.status = "ok"
    /\ Len(correlation.stats) = 2
    /\ correlation.stats[1].feature_name = "Insights"
    /\ PhiGreater(correlation.stats[1].phi, correlation.stats[2].phi)

\* Every result that exists is the one the sequential run of main computes
\* from the tables.
ResultsOfTables ==
    /\ activity \in {Pending, compute_activity_metrics(sessions)}
    /\ adoption \in {Pending, compute_feature_adoption(sessions, feature_usage)}
    /\ retention \in {Pending, compute_retention(users, sessions)}
    /\ correlation \in {Pending, compute_feature_repeat_correlation(users, sessions, feature_usage)}
    /\ feedback_trend \in {Pending, compute_feedback_trend(feedback, sessions)}

\* A step leaves the tables as they were, and a result that exists is left
\* as it was: a second run of an analyzer writes the same result.
NoSharedWrite ==
    /\ tables' = tables
    /\ activity # Pending => activity' = activity
    /\ adoption # Pending => adoption' = adoption
    /\ retention # Pending => retention' = retention
    /\ correlation # Pending => correlation' = correlation
    /\ feedback_trend # Pending => feedback_trend' = feedback_trend

\* C16: no analyzer changes a table it is given, so in whatever order the
\* analyzers run, and however often, each result is the one of the
\* sequential run and a second run of the engine writes identical results.
C16_NoSharedState == []ResultsOfTables /\ [][NoSharedWrite]_vars

\* C16 witness: the five analyzers have run on tables with rows in each,
\* the activity analyzer having added its columns to its own copy.
C16_Witness ==
    /\ activity.status = "ok" /\ adoption.status = "ok" /\ retention.status = "ok"
    /\ correlation.status = "ok" /\ feedback_trend.status = "ok"
    /\ Len(sessions) > 1 /\ feature_usage # {} /\ Len(feedback) > 0 /\ DOMAIN users # {}
    /\ ActivityFrame(sessions) # sessions
    /\ Len(adoption.adoption_table) > 0 /\ Len(correlation.stats) > 0

MockDataPresent == \A i \in 1..Len(MockDataFiles) : Exists(MockDataFiles[i])

\* Whatever the reason of a failure, a dashboard run without the funnel
\* table is stopped before its first output, and the table the funnel
\* script wrote has the columns the chart reads.
NoOutputWithoutTable ==
    /\ ~Exists("funnel_table.csv") =>
          /\ DashboardOutputs \cap DOMAIN files = {}
          /\ script.name = "generate_dashboard" =>
                script.pc \in {"load_datasets", "load_funnel_table"}
          /\ last.name = "generate_dashboard" => last.status = "FileNotFoundError"
    /\ (last.name = "generate_funnel" /\ last.status = "ok") => Exists("funnel_table.csv")
    /\ Exists("funnel_table.csv") =>
          /\ RenderColumns \subseteq ColumnsOf(files["funnel_table.csv"])
          /\ ~(last.name = "generate_dashboard" /\ last.where = "load_funnel_table")

\* C17 as stated: a dashboard run without report/funnel_table.csv fails with
\* FileNotFoundError in load_funnel_table before any dashboard output is
\* written, and once generate_funnel.main has completed the table exists
\* with the columns stage, users and step_drop_pct.
C17_FailsInLoadFunnelTable ==
    /\ NoOutputWithoutTable
    /\ (last.name = "generate_dashboard" /\ ~Exists("funnel_table.csv")) =>
          last.where = "load_funnel_table"

\* load_funnel_table returns when the table exists, and raises otherwise.
LoadFunnelTableStep ==
    script = [name |-> "generate_dashboard", pc |-> "load_funnel_table"] =>
        IF Exists("funnel_table.csv")
        THEN script'.pc = "render_dashboard" /\ last' = last
        ELSE last' = [name |-> "generate_dashboard", status |-> "FileNotFoundError",
                      where |-> "load_funnel_table"]

\* C17, amended: a dashboard run without report/funnel_table.csv fails with
\* FileNotFoundError before any dashboard output is written, in load_datasets
\* when a mock data file is missing and in load_funnel_table otherwise; once
\* generate_funnel.main has completed the table exists with the columns
\* stage, users and step_drop_pct, and load_funnel_table succeeds.
C17_FailsBeforeOutput ==
    /\ [](/\ NoOutputWithoutTable
          /\ (last.name = "generate_dashboard" /\ last.status = "FileNotFoundError") =>
                last.where \in {"load_datasets", "load_funnel_table"})
    /\ [][LoadFunnelTableStep]_vars
    /\ [][(last'.name = "generate_dashboard" /\ last' # last /\ ~Exists("funnel_table.csv"))
             => last'.where = IF MockDataPresent THEN "load_funnel_table"
                              ELSE "load_datasets"]_vars

\* C17 witness: with the mock data written and no funnel table, a dashboard
\* run has failed in load_funnel_table.
C17_Witness ==
    /\ MockDataPresent
    /\ ~Exists("funnel_table.csv")
    /\ last = [name |-> "generate_dashboard", status |-> "FileNotFoundError",
               where |-> "load_funnel_table"]

\* C18: when both analyzers have returned, the adoption table and the
\* correlation list name the same features, and for every feature the
\* adoption row's unique_users is the correlation row's users_used.
C18_AnalyzersAgree ==
    (adoption.status = "ok" /\ correlation.status = "ok") =>
        LET rows == adoption.adoption_table
        IN /\ {rows[i].feature_name : i \in 1..Len(rows)}
                = {r.feature_name : r \in CorrelationRows}
           /\ \A i \in 1..Len(rows) : \A r \in CorrelationRows :
                 r.feature_name = rows[i].feature_name =>
                     rows[i].unique_users = r.users_used

====
